---- MODULE Spec2Model ----
(***************************************************************************)
(* Model of the Redis-backed job queue (type RedisQueue).  The store is    *)
(* the only shared state; every Redis command is one atomic step, and an   *)
(* operation of the queue is the sequence of commands its code issues, so  *)
(* commands of concurrent clients interleave between the commands of one   *)
(* operation.  A go-redis Pipeline() is not MULTI/EXEC: its commands are   *)
(* executed in order but other clients' commands may run between them.     *)
(*                                                                         *)
(* A list or sorted-set entry is the JSON of a job; the model keeps the    *)
(* fields the queue reads or writes (id, priority, max_retries,            *)
(* retry_count, status, scheduled_at, error) and the type and payload a    *)
(* producer hands in.  Of the statistics hash the model keeps the counter  *)
(* total_enqueued; updated_at and the counters of updateDequeueStats are   *)
(* not part of the model.  A command fails in the store only in            *)
(* SpecFaulty, and only in Nack, Extend and Delete.  Time is counted in    *)
(* ticks of 1/TicksPerSec second.  The variable retry holds one call into  *)
(* package pkg/retry (retry.Do or ExponentialBackoff.Next), which no       *)
(* operation of the queue makes; db holds the jobs table of the migration  *)
(* and the calls of get_next_job on it; deliveries counts the pops of      *)
(* each job.                                                               *)
(*                                                                         *)
(* Specifications:                                                         *)
(*   Spec         every operation, one caller at a time;                   *)
(*   SpecWorkers  concurrent clients that enqueue, dequeue, acknowledge;   *)
(*   SpecRetry    one job, concurrent clients that also reject (Nack);     *)
(*   SpecLease    one job, clients that only enqueue and dequeue, with     *)
(*                fairness: the workers keep polling, the clock ticking.   *)
(*   SpecExtend   one worker that dequeues, extends its lease and acks;    *)
(*   SpecLive     one job, workers that poll and finish every delivery,    *)
(*                with fairness, and a clock that is not capped;           *)
(*   SpecConfig   queues constructed with and without a visibility         *)
(*                timeout, one worker;                                     *)
(*   SpecBatch    one caller that enqueues and calls DequeueBatch;         *)
(*   SpecProducer one caller that hands every kind of argument to Enqueue  *)
(*                and EnqueueBatch, and dequeues;                          *)
(*   SpecDo       calls of retry.Do for every script of outcomes of the    *)
(*                operation;                                               *)
(*   SpecCount    SpecRetry with the pops of the job counted;              *)
(*   SpecSql      concurrent calls of the SQL function get_next_job;       *)
(*   SpecBackoff  calls of ExponentialBackoff.Next;                        *)
(*   SpecFaulty   one job, one caller, commands of Nack, Extend and        *)
(*                Delete that may fail;                                    *)
(*   SpecDelete   one job, concurrent clients that enqueue, dequeue and    *)
(*                delete.                                                  *)
(***************************************************************************)
EXTENDS Integers, Sequences, FiniteSets, TLC

\* ------------------------------------------------------------------ bounds

\* Number of distinct job ids the producers have.
NJobs == 2
\* Number of concurrent clients (producers, consumers, operators).
NClients == 2
\* Clock resolution: ticks per second.
TicksPerSec == 2
\* The clock takes single ticks while it is less than MaxSubTicks ticks past
\* a whole minute, and whole minutes up to MaxMinutes.
MaxSubTicks == 2
MaxMinutes == 1
\* Producers choose max_retries in 0..MaxRetriesLimit.
MaxRetriesLimit == 2
\* A producer schedules a job for tick ScheduleTick, or not at all.
ScheduleTick == 3
\* The configured visibility timeout, in ticks.
VisibilityTimeout == 2

\* --------------------------------------------------------- program constants

JobPriorityLow == 0
JobPriorityNormal == 1
JobPriorityHigh == 2
JobPriorityCritical == 3

JobStatusPending == "pending"
JobStatusRunning == "running"
JobStatusDead == "dead"

QueuePriorityCritical == "critical"
QueuePriorityHigh == "high"
QueuePriorityNormal == "normal"
QueuePriorityLow == "low"

\* A nil *time.Time.
NoTime == -1

\* The largest max_retries a job request may ask for.
MaxRetriesMax == 10

\* The longest job type.
MaxTypeLen == 100

\* The largest MaxAttempts a caller of retry.Do configures.
MaxAttemptsLimit == 3
\* A removal of Nack fails only while the delayed set and the dead-letter
\* list hold at most MaxLeftOver entries.
MaxLeftOver == 1

\* DefaultConfig().BatchSize.
BatchSize == 10

CodeUnknown == "UNKNOWN"
CodeInternal == "INTERNAL"
CodeValidation == "VALIDATION"
CodeSerialization == "SERIALIZATION_ERROR"
CodeNotFound == "NOT_FOUND"
CodePermission == "PERMISSION_DENIED"
CodeAuthentication == "UNAUTHENTICATED"
CodeTimeout == "TIMEOUT"

Second == TicksPerSec
Minute == 60 * Second

QueueNames ==
  {QueuePriorityCritical, QueuePriorityHigh, QueuePriorityNormal, QueuePriorityLow}

Ids == 1..NJobs
\* The first job id alone.
OneJob == {i \in Ids : \A k \in Ids : i <= k}
Clients == 1..NClients
Reasons == {"boom"}
PriorityChoices == {JobPriorityNormal, JobPriorityCritical}

\* ------------------------------------------------------------------- state

VARIABLES
  queue,       \* queue:<name>:<priority>: one list of jobs per priority name
  delayed,     \* queue:<name>:delayed: sorted set, records [member, score]
  processing,  \* queue:<name>:processing: list of jobs
  deadLetter,  \* queue:<name>:dead_letter: list of jobs
  visibility,  \* queue:<name>:visibility:<id>: expiry tick of the key, 0 if none
  now,         \* the clock, in ticks
  maxRetries,  \* the max_retries the producers of this run give their jobs
  config,      \* q.config: the configuration the queue was constructed with
  stats,       \* queue:<name>:stats: the counters of the hash
  retry,       \* the call into package retry in progress: inputs and locals
  db,          \* the jobs table of the relational path and its transactions
  deliveries,  \* history: per counted id, the number of times Dequeue took it
  client,      \* per client: position in its operation and its local variables
  fresh,       \* the job ids the producers have not used yet
  accepted,    \* history: the ids whose Enqueue command the store has executed
  removed,     \* history: ids removed by a successful Ack, Delete or Clear
  fifo,        \* history: per priority list, the ids producers enqueued for
               \* immediate delivery, in arrival order, until first taken out
  present,     \* history: per client in Dequeue, the ids that were in a priority
               \* list when the Dequeue started and have stayed there since
  delivered,   \* history: per id, the set of the retry_count Dequeue last
               \* took it out with, empty before the first time
  backoff,     \* history: per id, the scheduled_at Nack has re-enqueued it
               \* with since Dequeue last took the id out, else NoTime
  extended     \* history: per id, the expiry Extend has given the visibility
               \* key, NoTime once the key has expired, is set anew or deleted

vars ==
  <<queue, delayed, processing, deadLetter, visibility, now, maxRetries, config,
    stats, retry, db, deliveries, client,
    fresh, accepted, removed, fifo, present, delivered, backoff, extended>>

store == <<queue, delayed, processing, deadLetter, visibility>>
history == <<fresh, accepted, removed, fifo, present, delivered, backoff>>

\* ----------------------------------------------------------------- helpers

\* time.Time.Unix(): whole seconds.
Unix(t) == t \div TicksPerSec

\* A job type and a payload the jobs of the workers carry.
JobTypeEmail == <<"e", "m", "a", "i", "l">>
EmptyObject == "{}"

NewJob(id, priority, retries, scheduledAt) ==
  [id |-> id, priority |-> priority, max_retries |-> retries,
   retry_count |-> 0, status |-> JobStatusPending,
   scheduled_at |-> scheduledAt, error |-> "", type |-> JobTypeEmail,
   payload |-> EmptyObject]

GetQueueName(priority) ==
  CASE priority = JobPriorityCritical -> QueuePriorityCritical
    [] priority = JobPriorityHigh -> QueuePriorityHigh
    [] priority = JobPriorityLow -> QueuePriorityLow
    [] OTHER -> QueuePriorityNormal

getQueueKey(priority) == GetQueueName(priority)

SeqIds(s) == {s[i].id : i \in 1..Len(s)}

\* The elements of list s whose decoded id is id, in list order (the entries
\* the scan loops of Ack, Nack and Delete stop at).
Matches(s, id) == SelectSeq(s, LAMBDA j : j.id = id)

\* LREM key 1 value: the list without the first element equal to value.
LRem(s, value) ==
  LET hits == {i \in 1..Len(s) : s[i] = value}
  IN IF hits = {} THEN s
     ELSE LET i == CHOOSE i \in hits : \A k \in hits : i <= k
          IN SubSeq(s, 1, i - 1) \o SubSeq(s, i + 1, Len(s))

\* ZADD key score member: a member already in the set only changes score.
ZAdd(z, score, member) ==
  {e \in z : e.member # member} \cup {[member |-> member, score |-> score]}

\* ZREM key member.
ZRem(z, member) == {e \in z : e.member # member}

\* The ids in the priority lists q.
ListIds(q) == UNION {SeqIds(q[n]) : n \in QueueNames}

\* present after a step that leaves the priority lists as q.
Track(q) == [d \in Clients |-> present[d] \cap ListIds(q)]

\* fifo after a step that leaves the priority lists as q: an id no longer in
\* its list has been taken out.
Taken(q) ==
  [n \in QueueNames |-> SelectSeq(fifo[n], LAMBDA i : i \in SeqIds(q[n]))]

\* A nil error.
Nil == [code |-> "", id |-> 0]

\* An error coded Internal about the job id.
Wrapped(id) == [code |-> CodeInternal, id |-> id]

\* errors.Newf("job %s not found ...", id).WithCode(errors.CodeNotFound).
JobNotFound(id) == [code |-> CodeNotFound, id |-> id]

\* fault: a command of the call in progress has failed in the store.
Idle == [pc |-> "idle", op |-> "", id |-> 0, reason |-> "", snap |-> <<>>,
         pipe |-> <<>>, idx |-> 0, job |-> <<>>, err |-> Nil, n |-> 0,
         limit |-> 0, left |-> 0, fault |-> FALSE]

\* client when the operation of c returns to its caller.
Return(c) == [client EXCEPT ![c] = Idle]

\* client when the call op(id) of c has its results, the error err and the
\* number n, in hand.
Result(c, op, id, err, n) ==
  [client EXCEPT ![c] = [Idle EXCEPT !.pc = "ret", !.op = op, !.id = id,
                                     !.err = err, !.n = n,
                                     !.fault = client[c].fault]]

\* The call of c hands its results to the caller.
Returns(c) ==
  /\ client[c].pc = "ret"
  /\ client' = Return(c)
  /\ UNCHANGED <<maxRetries, db, deliveries, retry, config, stats, extended, store, now, history>>

\* ---------------------------------------------------------------- retry.Do

\* An error value: its code, the error it wraps (none or one) and the number
\* of attempts its message reports; NoError is nil.
NoError == [code |-> "", cause |-> <<>>, attempts |-> 0]
Coded(code) == [code |-> code, cause |-> <<>>, attempts |-> 0]

\* The codes of the errors an operation returns.
ErrorCodes ==
  {CodeUnknown, CodeInternal, CodeValidation, CodeNotFound, CodePermission,
   CodeAuthentication, CodeTimeout}

\* What one call of the operation returns.
Outcomes == {NoError} \cup {Coded(code) : code \in ErrorCodes}

\* A classifier that retries nothing.
RetryNone(err) == FALSE

\* A classifier that retries every error.
RetryAll(err) == err # NoError

\* retry.go 13-31: the default classifier.
defaultRetryIf(err) ==
  IF err = NoError THEN FALSE
  ELSE IF err.code = CodeValidation THEN FALSE
  ELSE IF err.code = CodeNotFound THEN FALSE
  ELSE IF err.code = CodePermission \/ err.code = CodeAuthentication THEN FALSE
  ELSE TRUE

\* retry.go 137-140: Wrapf(lastErr, "operation failed after %d attempts",
\* MaxAttempts).WithCode(CodeInternal).
Exceeded(lastErr, maxAttempts) ==
  [code |-> CodeInternal, cause |-> <<lastErr>>, attempts |-> maxAttempts]

\* No call of retry.Do.
NoCall ==
  [pc |-> "none", max_attempts |-> 0, script |-> <<>>, attempt |-> 0,
   calls |-> 0, waits |-> 0, lastErr |-> NoError, result |-> NoError]

\* retry.go 77-84: the calls Do(operation, WithMaxAttempts(m)): the
\* operation returns script[i] at its i-th call, the other fields of the
\* configuration are the defaults (classifier defaultRetryIf, background
\* context).
DoInputs ==
  {[NoCall EXCEPT !.pc = "start", !.max_attempts = m, !.script = s] :
     m \in 0..MaxAttemptsLimit, s \in [1..MaxAttemptsLimit -> Outcomes]}

\* retry.go 87-92: DoWithConfig rejects a MaxAttempts that is not positive
\* with a plain error and otherwise enters its loop.
DoWithConfig ==
  /\ retry.pc = "start"
  /\ retry' =
       IF retry.max_attempts <= 0
       THEN [retry EXCEPT !.pc = "done", !.result = Coded(CodeUnknown)]
       ELSE [retry EXCEPT !.pc = "call", !.attempt = 1]
  /\ UNCHANGED <<maxRetries, db, deliveries, config, stats, extended, store, now, client,
                 history>>

\* retry.go 93-113: one round of the loop up to the backoff: the operation
\* is called; nil is returned at once, an error the classifier does not
\* retry is returned as it is, and after the last attempt the loop ends and
\* the last error is returned wrapped.
DoAttempt ==
  /\ retry.pc = "call"
  /\ LET err == retry.script[retry.attempt]
         called == [retry EXCEPT !.calls = @ + 1]
     IN retry' =
          IF err = NoError
          THEN [called EXCEPT !.pc = "done", !.result = NoError]
          ELSE IF ~defaultRetryIf(err)
          THEN [called EXCEPT !.pc = "done", !.lastErr = err, !.result = err]
          ELSE IF retry.attempt >= retry.max_attempts
          THEN [called EXCEPT !.pc = "done", !.lastErr = err,
                              !.result = Exceeded(err, retry.max_attempts)]
          ELSE [called EXCEPT !.pc = "wait", !.lastErr = err]
  /\ UNCHANGED <<maxRetries, db, deliveries, config, stats, extended, store, now, client,
                 history>>

\* retry.go 119-135: the timer of the backoff fires and the next round
\* starts.
DoWait ==
  /\ retry.pc = "wait"
  /\ retry' = [retry EXCEPT !.pc = "call", !.attempt = @ + 1, !.waits = @ + 1]
  /\ UNCHANGED <<maxRetries, db, deliveries, config, stats, extended, store, now, client,
                 history>>

\* ------------------------------------------------- ExponentialBackoff.Next

\* Jitter factors are multiples of 1/JitterSteps in [0, 1], and rand.Float64
\* returns a multiple of 1/RandSteps in [0, 1).
JitterSteps == 2
RandSteps == 4

\* The delays and multipliers a backoff is configured with, in units of
\* time.Duration.
DelayChoices == {1, 3}
MaxDelayChoices == {4, 10}
MultiplierChoices == 1..3

\* math.Pow(m, k) for whole numbers, k >= 0.
RECURSIVE Pow(_, _)
Pow(m, k) == IF k <= 0 THEN 1 ELSE m * Pow(m, k - 1)

\* A delay that is not capped.
Uncapped(num, den, max) == num \div den

\* retry.go 187-191: a delay of num/den above max is replaced by max, and
\* the conversion to time.Duration drops the fraction.
Capped(num, den, max) == IF num > max * den THEN max ELSE num \div den

\* retry.go 176-192: Next(attempt) of the backoff e when rand.Float64
\* returns rand / RandSteps.  The jittered delay
\* delay - jitter + rand * jitter * 2 is computed over the denominator
\* JitterSteps * RandSteps.
ExponentialNext(e, attempt, rand) ==
  IF attempt <= 0 THEN 0
  ELSE LET delay == e.initial_delay * Pow(e.multiplier, attempt - 1)
           den == JitterSteps * RandSteps
           num == IF e.jitter > 0
                  THEN delay * den - delay * e.jitter * RandSteps
                       + rand * delay * e.jitter * 2
                  ELSE delay * den
       IN Capped(num, den, e.max_delay)

\* The backoffs a caller builds, none of whose Next has been called.
BackoffInputs ==
  {[pc |-> "backoff",
    e |-> [initial_delay |-> i, max_delay |-> x, multiplier |-> m,
           jitter |-> j],
    attempt |-> 0, delay |-> 0, before |-> 0, shorter |-> 0] :
     i \in DelayChoices, x \in MaxDelayChoices, m \in MultiplierChoices,
     j \in 0..JitterSteps}

\* One call e.Next(attempt): the caller keeps the result, and the result of
\* the call before it.
NextDelay ==
  /\ retry.pc \in {"backoff", "delay"}
  /\ \E attempt \in -1..(MaxAttemptsLimit + 1), rand \in 0..(RandSteps - 1) :
       retry' = [retry EXCEPT
                   !.pc = "delay", !.attempt = attempt,
                   !.delay = ExponentialNext(retry.e, attempt, rand),
                   !.before = IF retry.pc = "delay" THEN retry.attempt ELSE @,
                   !.shorter = IF retry.pc = "delay" THEN retry.delay ELSE @]
  /\ UNCHANGED <<maxRetries, db, deliveries, config, stats, extended, store,
                 now, client, history>>

\* --------------------------------------------------------- relational path

\* No jobs table.
NoDatabase == [conflict |-> "", rows |-> <<>>, lock |-> <<>>, tx |-> <<>>]

\* The settings of plpgsql.variable_conflict: what worker_id on the right of
\* SET worker_id = worker_id means inside get_next_job, where it names both
\* the parameter and the column.  With "error" (the default) the statement
\* is rejected as ambiguous.
VariableConflict == {"error", "use_variable", "use_column"}

\* The worker id client c passes, and the NULL of the column.
WorkerId(c) == <<"worker", c>>
Null == <<>>

\* Lines 19-37: the rows of table jobs that the callers find: the columns
\* get_next_job reads or writes.  created_at follows the id.
RowInputs ==
  [status : {"pending", "running"},
   priority : PriorityChoices,
   scheduled_at : {NoTime, 0, ScheduleTick},
   worker_id : {Null}]

\* A caller outside any transaction.
NoTx == [pc |-> "idle", sel |-> {}, out |-> {}, err |-> ""]

SqlInputs ==
  {[conflict |-> v, rows |-> r, lock |-> [i \in Ids |-> 0],
    tx |-> [c \in Clients |-> NoTx]] :
     v \in VariableConflict, r \in [Ids -> RowInputs]}

\* Lines 136-142: ORDER BY priority DESC, created_at LIMIT n over the rows
\* with ids in S.
RECURSIVE FirstRows(_, _)
FirstRows(S, n) ==
  IF S = {} \/ n <= 0 THEN {}
  ELSE LET i == CHOOSE i \in S :
                  \A k \in S :
                    \/ db.rows[i].priority > db.rows[k].priority
                    \/ /\ db.rows[i].priority = db.rows[k].priority
                       /\ i <= k
       IN {i} \cup FirstRows(S \ {i}, n - 1)

\* Lines 136-143: the rows the subquery selects and locks for a caller:
\* pending, due, and not locked by another transaction (SKIP LOCKED).
Claimable ==
  {i \in Ids :
     /\ db.rows[i].status = "pending"
     /\ db.rows[i].scheduled_at = NoTime \/ db.rows[i].scheduled_at <= now
     /\ db.lock[i] = 0}

\* Lines 125-128: get_next_job(worker_id, max_jobs) is called in a
\* transaction of its own.  When the statement is ambiguous the call fails
\* before it reads a row; otherwise the subquery locks its rows.
GetNextJob(c) ==
  /\ db.tx[c].pc = "idle"
  /\ \E max_jobs \in 1..NJobs :
       LET sel == FirstRows(Claimable, max_jobs)
       IN db' =
            IF db.conflict = "error"
            THEN [db EXCEPT !.tx[c] = [NoTx EXCEPT !.pc = "done",
                                                  !.err = "ambiguous"]]
            ELSE [db EXCEPT
                    !.tx[c] = [NoTx EXCEPT !.pc = "locked", !.sel = sel],
                    !.lock = [i \in Ids |-> IF i \in sel THEN c ELSE db.lock[i]]]
  /\ UNCHANGED <<maxRetries, deliveries, retry, config, stats, extended,
                 store, now, client, history>>

\* Lines 129-145: UPDATE ... SET status = 'running', worker_id = worker_id
\* ... RETURNING * on the locked rows.
SqlUpdate(c) ==
  /\ db.tx[c].pc = "locked"
  /\ LET updated ==
           [i \in Ids |->
              IF i \in db.tx[c].sel
              THEN [db.rows[i] EXCEPT
                      !.status = "running",
                      !.worker_id = IF db.conflict = "use_variable"
                                    THEN WorkerId(c) ELSE @]
              ELSE db.rows[i]]
     IN db' = [db EXCEPT
                 !.rows = updated,
                 !.tx[c].pc = "updated",
                 !.tx[c].out = {[id |-> i, row |-> updated[i]] :
                                  i \in db.tx[c].sel}]
  /\ UNCHANGED <<maxRetries, deliveries, retry, config, stats, extended,
                 store, now, client, history>>

\* The transaction commits: its locks are released and the caller has the
\* rows.
SqlCommit(c) ==
  /\ db.tx[c].pc = "updated"
  /\ db' = [db EXCEPT
              !.tx[c].pc = "done",
              !.lock = [i \in Ids |-> IF db.lock[i] = c THEN 0 ELSE db.lock[i]]]
  /\ UNCHANGED <<maxRetries, deliveries, retry, config, stats, extended,
                 store, now, client, history>>

\* No id has its deliveries counted.
Uncounted == [i \in {} |-> 0]

\* ------------------------------------------------------------- constructor

\* Lines 79-90 of interface.go: the fields of Config the queue reads.
DefaultConfig ==
  [visibility_timeout |-> VisibilityTimeout, batch_size |-> BatchSize]

\* Lines 101-118: NewRedisQueue with a client that is not nil: the queue
\* keeps the configuration as it is given.
NewRedisQueue(cfg) == [err |-> Nil, config |-> cfg]

\* -------------------------------------------------------------------- Init

\* The state after NewRedisQueue on an empty store, with producers that hold
\* the job ids in ids and give their jobs a max_retries out of retries.
StartQueue(ids, retries, configs) ==
  /\ config \in {NewRedisQueue(cfg).config :
                   cfg \in {x \in configs : NewRedisQueue(x).err = Nil}}
  /\ stats = [total_enqueued |-> 0]
  /\ queue = [n \in QueueNames |-> <<>>]
  /\ delayed = {}
  /\ processing = <<>>
  /\ deadLetter = <<>>
  /\ visibility = [i \in Ids |-> 0]
  /\ now = 0
  /\ maxRetries \in retries
  /\ client = [c \in Clients |-> Idle]
  /\ fresh = ids
  /\ accepted = {}
  /\ removed = {}
  /\ fifo = [n \in QueueNames |-> <<>>]
  /\ present = [c \in Clients |-> {}]
  /\ delivered = [i \in Ids |-> {}]
  /\ backoff = [i \in Ids |-> NoTime]
  /\ extended = [i \in Ids |-> NoTime]

\* The same with calls of retry.Do, without the relational path and with no
\* id counted.
StartCalls(ids, retries, configs, calls) ==
  /\ StartQueue(ids, retries, configs)
  /\ retry \in calls
  /\ db = NoDatabase
  /\ deliveries = Uncounted

\* The same with no call of retry.Do.
StartWith(ids, retries, configs) == StartCalls(ids, retries, configs, {NoCall})

\* The same with the default configuration.
Start(ids, retries) == StartWith(ids, retries, {DefaultConfig})

Init == Start(Ids, 0..MaxRetriesLimit)

\* ----------------------------------------------------------------- Enqueue

\* The job inputs a producer can build for id.
JobInputs(id) ==
  {NewJob(id, p, maxRetries, s) :
     p \in PriorityChoices, s \in {NoTime, ScheduleTick}}

\* Job ids are new UUIDs: the producers take them in increasing order.
FreshId == CHOOSE i \in fresh : \A k \in fresh : i <= k

\* A store command that sends a job that is due at this very instant to the
\* delayed set as well.
DelayCmd(job) ==
  IF job.scheduled_at # NoTime /\ job.scheduled_at >= now
  THEN [cmd |-> "ZAdd", key |-> "delayed", score |-> Unix(job.scheduled_at),
        member |-> job]
  ELSE [cmd |-> "RPush", key |-> getQueueKey(job.priority), score |-> 0,
        member |-> job]

\* Lines 132-141: the store command Enqueue issues for job.
EnqueueCmd(job) ==
  IF job.scheduled_at # NoTime /\ job.scheduled_at > now
  THEN [cmd |-> "ZAdd", key |-> "delayed", score |-> Unix(job.scheduled_at),
        member |-> job]
  ELSE [cmd |-> "RPush", key |-> getQueueKey(job.priority), score |-> 0,
        member |-> job]

\* LPUSH key member.
LPush(s, member) == <<member>> \o s

\* RPUSH key member.
RPush(s, member) == Append(s, member)

\* The priority lists and the delayed set after one store command.
ExecQueue(cmd) ==
  IF cmd.cmd = "RPush" THEN [queue EXCEPT ![cmd.key] = RPush(@, cmd.member)]
  ELSE queue

ExecDelayed(cmd) ==
  CASE cmd.cmd = "ZAdd" -> ZAdd(delayed, cmd.score, cmd.member)
    [] cmd.cmd = "ZRem" -> ZRem(delayed, cmd.member)
    [] OTHER -> delayed

\* fifo after a producer's command cmd.
Arrived(cmd) ==
  IF cmd.cmd = "RPush" THEN [fifo EXCEPT ![cmd.key] = Append(@, cmd.member.id)]
  ELSE fifo

\* Lines 612-617: HINCRBY stats total_enqueued 1. Nothing reads the hash, so
\* the command is taken with the last store command of the call before it.
updateEnqueueStats == [stats EXCEPT !.total_enqueued = @ + 1]

\* Enqueue of a fresh job by an idle client: one store command.
Enqueue(c) ==
  /\ client[c].pc = "idle"
  /\ fresh # {}
  /\ \E job \in JobInputs(FreshId) :
       /\ queue' = ExecQueue(EnqueueCmd(job))
       /\ delayed' = ExecDelayed(EnqueueCmd(job))
       /\ fifo' = Arrived(EnqueueCmd(job))
       /\ fresh' = fresh \ {job.id}
       /\ accepted' = accepted \cup {job.id}
  /\ stats' = updateEnqueueStats
  /\ UNCHANGED <<maxRetries, db, deliveries, retry, config, extended, processing, deadLetter,
                 visibility, now, client, removed, present, delivered,
                 backoff>>

\* Lines 166-184: the pipeline EnqueueBatch builds for jobs.
RECURSIVE BatchPipe(_)
BatchPipe(jobs) ==
  IF jobs = <<>> THEN <<>>
  ELSE <<EnqueueCmd(Head(jobs))>> \o BatchPipe(Tail(jobs))

\* The batches a producer can build from fresh ids.
BatchInputs ==
  IF fresh = {} THEN {}
  ELSE {<<j>> : j \in JobInputs(FreshId)}
       \cup {<<j, k>> : j \in JobInputs(FreshId),
                        k \in UNION {JobInputs(i) : i \in fresh}}

\* EnqueueBatch of fresh jobs: the pipeline is built and sent.
EnqueueBatch(c) ==
  /\ client[c].pc = "idle"
  /\ \E jobs \in BatchInputs :
       /\ Cardinality(SeqIds(jobs)) = Len(jobs)
       /\ \A i \in fresh : \A k \in SeqIds(jobs) :
            i < k => i \in SeqIds(jobs)
       /\ fresh' = fresh \ SeqIds(jobs)
       /\ client' = [client EXCEPT ![c].op = "EnqueueBatch", ![c].pc = "pipe",
                                   ![c].pipe = BatchPipe(jobs)]
  /\ UNCHANGED <<maxRetries, db, deliveries, retry, config, stats, extended, store, now, accepted, removed, fifo, present,
                 delivered, backoff>>

\* ------------------------------------------------- Enqueue, every argument

\* The characters of [a-zA-Z0-9_-] that the job types here are made of.
TypeChars == {"a", "e", "i", "j", "l", "m"}

\* validation.go 255-274: JobType accepts 1 to 100 characters of
\* [a-zA-Z0-9_-].
JobType(str) ==
  /\ Len(str) >= 1 /\ Len(str) <= MaxTypeLen
  /\ \A i \in 1..Len(str) : str[i] \in TypeChars

\* validation.go 277-279: JobPriority accepts 0, 1, 2 and 3.
JobPriority(value) ==
  value \in {JobPriorityLow, JobPriorityNormal, JobPriorityHigh,
             JobPriorityCritical}

\* A json.Marshal that accepts every job.
NoFailure(job) == Nil

\* Payloads a producer hands in: a JSON object and a truncated one.
PayloadChoices == {EmptyObject, "{"}

\* json.Valid on the payloads above.
ValidJSON(payload) == payload \in {EmptyObject}

\* Lines 125-129 and 167-171: json.Marshal(job) fails on a RawMessage
\* payload that is not JSON.
Marshal(job) ==
  IF ValidJSON(job.payload) THEN Nil
  ELSE [code |-> CodeSerialization, id |-> 0]

\* Job types a producer hands in: a name, the empty string, a name with a
\* space.
TypeChoices == {JobTypeEmail, <<>>, <<"j", " ">>}

\* The job records a producer can hand to Enqueue for id: the jobs of
\* JobInputs, jobs scheduled at the current instant, and jobs with one field
\* out of its range.
ArgJobs(id) ==
  {NewJob(id, p, maxRetries, sa) :
     p \in PriorityChoices, sa \in {NoTime, ScheduleTick, now}}
  \cup {[NewJob(id, JobPriorityNormal, maxRetries, NoTime)
           EXCEPT !.type = t] : t \in TypeChoices}
  \cup {[NewJob(id, JobPriorityNormal, maxRetries, NoTime)
           EXCEPT !.payload = pl] : pl \in PayloadChoices}
  \cup {NewJob(id, JobPriorityCritical + 1, maxRetries, NoTime),
        NewJob(id, JobPriorityNormal, MaxRetriesMax + 1, NoTime)}

\* The arguments of Enqueue: a pointer to a job, or nil (the empty set).
ArgInputs(id) == {{}} \cup {{job} : job \in ArgJobs(id)}

\* client when the producer call op of c returns err for the argument job.
Produced(c, op, job, err) ==
  [client EXCEPT ![c] = [Idle EXCEPT !.pc = "ret", !.op = op, !.job = job,
                                     !.err = err]]

\* Lines 121-156: Enqueue(job) for any argument: nil is a validation error,
\* a job that json.Marshal rejects a serialization error, and every other
\* job is stored with one command.
EnqueueCall(c) ==
  /\ client[c].pc = "idle"
  /\ fresh # {}
  /\ \E arg \in ArgInputs(FreshId) :
       IF arg = {}
       THEN /\ client' = Produced(c, "Enqueue", <<>>,
                                  [code |-> CodeValidation, id |-> 0])
            /\ UNCHANGED <<queue, delayed, fifo, fresh, accepted, stats>>
       ELSE LET job == CHOOSE j \in arg : TRUE
            IN IF Marshal(job) # Nil
               THEN /\ client' = Produced(c, "Enqueue", job, Marshal(job))
                    /\ UNCHANGED <<queue, delayed, fifo, fresh, accepted,
                                   stats>>
               ELSE /\ queue' = ExecQueue(EnqueueCmd(job))
                    /\ delayed' = ExecDelayed(EnqueueCmd(job))
                    /\ fifo' = Arrived(EnqueueCmd(job))
                    /\ fresh' = fresh \ {job.id}
                    /\ accepted' = accepted \cup {job.id}
                    /\ stats' = updateEnqueueStats
                    /\ client' = Produced(c, "Enqueue", job, Nil)
  /\ UNCHANGED <<maxRetries, db, deliveries, retry, config, extended, processing, deadLetter,
                 visibility, now, removed, present, delivered, backoff>>

\* The batches a producer can hand to EnqueueBatch: none, one or two jobs of
\* fresh ids, any of them with a payload that is not JSON.
BatchArgs ==
  {<<>>}
  \cup {jobs \in UNION {[1..n -> UNION {ArgJobs(i) : i \in fresh}] :
                          n \in 1..NJobs} :
          /\ \A i \in 1..Len(jobs) :
               /\ jobs[i].id = FreshId + i - 1
               /\ jobs[i].type = JobTypeEmail
               /\ jobs[i].priority = JobPriorityNormal
               /\ jobs[i].max_retries = maxRetries
               /\ jobs[i].scheduled_at \in {NoTime, ScheduleTick}}

\* The first job of jobs that json.Marshal rejects, or 0.
FirstFailure(jobs) ==
  LET bad == {i \in 1..Len(jobs) : Marshal(jobs[i]) # Nil}
  IN IF bad = {} THEN 0 ELSE CHOOSE i \in bad : \A k \in bad : i <= k

\* Lines 159-195: EnqueueBatch(jobs) for any batch: an empty batch returns
\* at once; the loop returns a serialization error at the first job that
\* json.Marshal rejects, before the pipeline is sent; otherwise the pipeline
\* is sent.
EnqueueBatchCall(c) ==
  /\ client[c].pc = "idle"
  /\ \E jobs \in BatchArgs :
       IF Len(jobs) = 0
       THEN /\ client' = [Produced(c, "EnqueueBatch", <<>>, Nil)
                           EXCEPT ![c].snap = jobs]
            /\ UNCHANGED fresh
       ELSE IF FirstFailure(jobs) # 0
       THEN /\ client' = [Produced(c, "EnqueueBatch", <<>>,
                                   Marshal(jobs[FirstFailure(jobs)]))
                           EXCEPT ![c].snap = jobs]
            /\ UNCHANGED fresh
       ELSE /\ fresh' = fresh \ SeqIds(jobs)
            /\ client' = [client EXCEPT ![c].op = "EnqueueBatch",
                                        ![c].pc = "pipe",
                                        ![c].pipe = BatchPipe(jobs)]
  /\ UNCHANGED <<maxRetries, db, deliveries, retry, config, stats, extended, store, now, accepted,
                 removed, fifo, present, delivered, backoff>>

\* ----------------------------------------------------------------- Dequeue

\* The priorities from the lowest up.
Ascending ==
  <<JobPriorityLow, JobPriorityNormal, JobPriorityHigh, JobPriorityCritical>>

\* Lines 204-209: the priorities in the order Dequeue tries them.
Priorities ==
  <<JobPriorityCritical, JobPriorityHigh, JobPriorityNormal, JobPriorityLow>>

\* The sequences that list every element of set S once, lowest score first
\* (ZRANGEBYSCORE orders by score; members of equal score come in byte order,
\* which is any order here).
RECURSIVE ByScore(_)
ByScore(S) ==
  IF S = {} THEN {<<>>}
  ELSE UNION {{<<e>> \o t : t \in ByScore(S \ {e})} :
                e \in {x \in S : \A y \in S : x.score <= y.score}}

\* A promotion pipeline that removes each due member from the delayed set
\* before it pushes it.
RECURSIVE RemoveThenPush(_)
RemoveThenPush(due) ==
  IF due = <<>> THEN <<>>
  ELSE <<[cmd |-> "ZRem", key |-> "delayed", score |-> 0,
          member |-> Head(due).member],
         [cmd |-> "RPush", key |-> getQueueKey(Head(due).member.priority),
          score |-> 0, member |-> Head(due).member]>>
       \o RemoveThenPush(Tail(due))

\* Lines 573-583: the pipeline built for the due members, in order.
RECURSIVE PromotePipe(_)
PromotePipe(due) ==
  IF due = <<>> THEN <<>>
  ELSE <<[cmd |-> "RPush", key |-> getQueueKey(Head(due).member.priority),
          score |-> 0, member |-> Head(due).member],
         [cmd |-> "ZRem", key |-> "delayed", score |-> 0,
          member |-> Head(due).member]>> \o PromotePipe(Tail(due))

\* A range query that returns no member.
NoneDue == {}

\* Lines 562-567: ZRANGEBYSCORE delayed 0 now.Unix().
DueJobs == {e \in delayed : e.score <= Unix(now)}

\* client when the Dequeue of c returns got jobs (none or one): to the caller
\* or, inside DequeueBatch (left > 0, lines 262-273), to the loop, which ends
\* with no job or after the last round.
DequeueReturns(c, got) ==
  IF client[c].left = 0 THEN Return(c)
  ELSE [client EXCEPT ![c] =
          [Idle EXCEPT !.pc = IF got = 0 \/ client[c].left = 1
                              THEN "ret" ELSE "batch",
                       !.op = "DequeueBatch",
                       !.limit = client[c].limit,
                       !.left = IF got = 0 \/ client[c].left = 1
                                THEN 0 ELSE client[c].left - 1,
                       !.n = client[c].n + got]]

\* Dequeue, first command: processScheduledJobs reads the due members.
processScheduledJobs(c) ==
  /\ client[c].pc \in {"idle", "batch"}
  /\ \E due \in ByScore(DueJobs) :
       client' = [client EXCEPT ![c].op = "Dequeue",
                    ![c].pipe = PromotePipe(due),
                    ![c].pc = IF due = <<>> THEN "scan" ELSE "pipe",
                    ![c].idx = 1]
  /\ present' = [Track(queue) EXCEPT ![c] = ListIds(queue)]
  /\ UNCHANGED <<maxRetries, db, deliveries, retry, config, stats, extended, store, now, fresh, accepted, removed, fifo,
                 delivered, backoff>>

\* One command of a pipeline (processScheduledJobs line 585, EnqueueBatch
\* line 186) is executed by the store.
PipeExec(c) ==
  /\ client[c].pc = "pipe"
  /\ LET cmd == Head(client[c].pipe)
         rest == Tail(client[c].pipe)
         batch == client[c].op = "EnqueueBatch"
     IN /\ queue' = ExecQueue(cmd)
        /\ delayed' = ExecDelayed(cmd)
        /\ fifo' = IF batch THEN Arrived(cmd) ELSE fifo
        /\ accepted' = IF batch THEN accepted \cup {cmd.member.id} ELSE accepted
        /\ client' =
             IF rest # <<>> THEN [client EXCEPT ![c].pipe = rest]
             ELSE IF batch THEN Return(c)
             ELSE [client EXCEPT ![c].pipe = rest, ![c].pc = "scan"]
        /\ stats' = IF batch /\ rest = <<>> THEN updateEnqueueStats ELSE stats
  /\ UNCHANGED <<maxRetries, db, deliveries, retry, config, extended, processing, deadLetter,
                 visibility, now, fresh, removed, present, delivered, backoff>>

\* Lines 210-234: BLMOVE <priority list> processing LEFT RIGHT for the
\* priority at position idx; an empty list moves on to the next priority,
\* and after the last one Dequeue returns no job.
BLMove(c) ==
  /\ client[c].pc = "scan"
  /\ LET key == getQueueKey(Priorities[client[c].idx])
     IN IF queue[key] = <<>>
        THEN /\ client' =
                  IF client[c].idx < Len(Priorities)
                  THEN [client EXCEPT ![c].idx = @ + 1]
                  ELSE DequeueReturns(c, 0)
             /\ present' =
                  IF client[c].idx < Len(Priorities) THEN present
                  ELSE [present EXCEPT ![c] = {}]
             /\ UNCHANGED <<queue, processing, fifo, delivered, backoff>>
        ELSE /\ queue' = [queue EXCEPT ![key] = Tail(@)]
             /\ processing' = RPush(processing, Head(queue[key]))
             /\ client' = [client EXCEPT ![c].pc = "arm",
                                         ![c].job = Head(queue[key])]
             /\ fifo' = Taken(queue')
             /\ present' = Track(queue')
             /\ delivered' = [delivered EXCEPT ![Head(queue[key]).id] =
                                                {Head(queue[key]).retry_count}]
             /\ backoff' = [backoff EXCEPT ![Head(queue[key]).id] = NoTime]
  /\ deliveries' =
       [i \in DOMAIN deliveries |->
          IF queue[getQueueKey(Priorities[client[c].idx])] # <<>>
             /\ Head(queue[getQueueKey(Priorities[client[c].idx])]).id = i
          THEN deliveries[i] + 1 ELSE deliveries[i]]
  /\ UNCHANGED <<maxRetries, db, retry, config, stats, extended, delayed, deadLetter, visibility, now, fresh, accepted,
                 removed>>

\* The expiry of a key set now with expiration ttl: none (NoTime) when ttl
\* is zero.
Expiry(ttl) == IF ttl = 0 THEN NoTime ELSE now + ttl

\* Lines 236-249 and 589-592: SET visibility:<id> "1" EX visibility_timeout,
\* then Dequeue returns the job.
setVisibilityTimeout(c) ==
  /\ client[c].pc = "arm"
  /\ visibility' =
       [visibility EXCEPT ![client[c].job.id] =
                            Expiry(config.visibility_timeout)]
  /\ extended' = [extended EXCEPT ![client[c].job.id] = NoTime]
  /\ client' = DequeueReturns(c, 1)
  /\ present' = [present EXCEPT ![c] = {}]
  /\ UNCHANGED <<maxRetries, db, deliveries, retry, config, stats, queue, delayed, processing, deadLetter, now, fresh,
                 accepted, removed, fifo, delivered, backoff>>

\* ------------------------------------------------------------ DequeueBatch

\* The limits a consumer asks for.
LimitChoices == 0..NJobs

\* Lines 257-261: DequeueBatch(limit) sets up its loop; a limit of zero or
\* less is replaced by the configured batch size.
DequeueBatch(c) ==
  /\ client[c].pc = "idle"
  /\ \E limit \in LimitChoices :
       LET rounds == IF limit <= 0 THEN config.batch_size ELSE limit
       IN client' =
            [client EXCEPT ![c] =
               [Idle EXCEPT !.pc = IF rounds > 0 THEN "batch" ELSE "ret",
                            !.op = "DequeueBatch", !.limit = limit,
                            !.left = IF rounds > 0 THEN rounds ELSE 0]]
  /\ UNCHANGED <<maxRetries, db, deliveries, retry, config, stats, extended, store, now, history>>

\* --------------------------------------------------------------------- Ack

\* Lines 280-281: LRANGE processing 0 -1; with no entry of the id Ack
\* returns NotFound at once.
AckRead(c) ==
  /\ client[c].pc = "idle"
  /\ \E id \in Ids :
       /\ Matches(processing, id) # <<>>
       /\ client' = [client EXCEPT ![c].op = "Ack", ![c].pc = "ackrem",
                       ![c].id = id, ![c].snap = Matches(processing, id)]
  /\ UNCHANGED <<maxRetries, db, deliveries, retry, config, stats, extended, store, now, history>>

\* Lines 280-291 and 308: LRANGE processing 0 -1 has no entry of the id:
\* Ack has its NotFound error.
AckMiss(c) ==
  /\ client[c].pc = "idle"
  /\ \E id \in Ids :
       /\ Matches(processing, id) = <<>>
       /\ client' = Result(c, "Ack", id, JobNotFound(id), 0)
  /\ UNCHANGED <<maxRetries, db, deliveries, retry, config, stats, extended, store, now, history>>

\* An LREM that always reports one removed element.
AlwaysOne(s, value) == 1

\* The count LREM key 1 value returns: the number of elements removed.
LRemCount(s, value) ==
  IF \E i \in 1..Len(s) : s[i] = value THEN 1 ELSE 0

\* Lines 292-305: LREM processing 1 <entry> for the next entry of the id in
\* the snapshot; a count of 0 moves on, and after the last entry Ack returns
\* NotFound.
AckRem(c) ==
  /\ client[c].pc = "ackrem"
  /\ LET entry == Head(client[c].snap)
         count == LRemCount(processing, entry)
     IN /\ processing' = LRem(processing, entry)
        /\ removed' = IF count > 0 THEN removed \cup {client[c].id} ELSE removed
        /\ client' =
             IF count > 0 THEN [client EXCEPT ![c].pc = "ackclear"]
             ELSE IF Tail(client[c].snap) # <<>>
               THEN [client EXCEPT ![c].snap = Tail(@)]
               ELSE Result(c, "Ack", client[c].id,
                           JobNotFound(client[c].id), 0)
  /\ UNCHANGED <<maxRetries, db, deliveries, retry, config, stats, extended, queue, delayed, deadLetter, visibility, now,
                 fresh, accepted, fifo, present, delivered, backoff>>

\* Lines 300 and 594-598: DEL visibility:<id>, then Ack returns ok.
clearVisibilityTimeout(c) ==
  /\ client[c].pc = "ackclear"
  /\ visibility' = [visibility EXCEPT ![client[c].id] = 0]
  /\ extended' = [extended EXCEPT ![client[c].id] = NoTime]
  /\ client' = Return(c)
  /\ UNCHANGED <<maxRetries, db, deliveries, retry, config, stats, queue, delayed, processing, deadLetter, now,
                 history>>

\* -------------------------------------------------------------------- Nack

\* Lines 314-327: LRANGE processing 0 -1; Nack works on the first entry of
\* the id, and with none returns NotFound at once.
NackRead(c) ==
  /\ client[c].pc = "idle"
  /\ \E id \in Ids, reason \in Reasons :
       /\ Matches(processing, id) # <<>>
       /\ client' = [client EXCEPT ![c].op = "Nack", ![c].pc = "nackput",
                       ![c].id = id, ![c].reason = reason,
                       ![c].job = Head(Matches(processing, id))]
  /\ UNCHANGED <<maxRetries, db, deliveries, retry, config, stats, extended, store, now, history>>

\* Lines 314-327 and 361: LRANGE processing 0 -1 has no entry of the id:
\* Nack has its NotFound error.
NackMiss(c) ==
  /\ client[c].pc = "idle"
  /\ \E id \in Ids, reason \in Reasons :
       /\ Matches(processing, id) = <<>>
       /\ client' = Result(c, "Nack", id, JobNotFound(id), 0)
  /\ UNCHANGED <<maxRetries, db, deliveries, retry, config, stats, extended, store, now, history>>

\* Lines 328-330: the job Nack writes back.
Retried(job, reason) ==
  [job EXCEPT !.retry_count = @ + 1, !.error = reason]

\* Line 332: the retries are used up.
Exhausted(job) == job.retry_count >= job.max_retries

\* A retried job with its backoff, moved to the low priority.
Demoted(job) ==
  [job EXCEPT !.scheduled_at = now + job.retry_count * Minute,
              !.priority = JobPriorityLow]

\* Lines 337-338: the retried job with its backoff.
Backoff(job) ==
  [job EXCEPT !.scheduled_at = now + job.retry_count * Minute]

\* Lines 600-610: the entry moveToDeadLetter pushes.
moveToDeadLetter(job) == [job EXCEPT !.status = JobStatusDead]

\* Lines 332-343: RPUSH dead_letter for a job out of retries, else the
\* command of Enqueue for the job with its backoff.
NackPut(c) ==
  /\ client[c].pc = "nackput"
  /\ LET job == Retried(client[c].job, client[c].reason)
     IN IF Exhausted(job)
        THEN /\ deadLetter' = RPush(deadLetter, moveToDeadLetter(job))
             /\ UNCHANGED <<queue, delayed, backoff>>
        ELSE /\ queue' = ExecQueue(EnqueueCmd(Backoff(job)))
             /\ delayed' = ExecDelayed(EnqueueCmd(Backoff(job)))
             /\ backoff' = [backoff EXCEPT ![job.id] = Backoff(job).scheduled_at]
             /\ UNCHANGED deadLetter
  /\ client' = [client EXCEPT ![c].pc = "nackrem"]
  /\ UNCHANGED <<maxRetries, db, deliveries, retry, config, stats, extended, processing, visibility, now, fresh, accepted, removed,
                 fifo, present, delivered>>

\* Lines 345-357: LREM processing 1 <entry>, then Nack returns ok.
NackRem(c) ==
  /\ client[c].pc = "nackrem"
  /\ processing' = LRem(processing, client[c].job)
  /\ client' = Return(c)
  /\ UNCHANGED <<maxRetries, db, deliveries, retry, config, stats, extended, queue, delayed, deadLetter, visibility, now,
                 history>>

\* ------------------------------------------------------------------ Extend

\* The durations a worker extends its lease by.
ExtendChoices == {2 * VisibilityTimeout}

\* SET key value: the key at id exists with expiry t.
SetKey(id, t) == [visibility EXCEPT ![id] = t]

\* A command that leaves every key as it is.
KeepKey(id, t) == visibility

\* EXPIRE key: the key at id, if there is one, has expiry t.
ExpireKey(id, t) ==
  IF visibility[id] # 0 THEN [visibility EXCEPT ![id] = t] ELSE visibility

\* Lines 426-430: EXPIRE visibility:<id> duration, whose error (none when
\* the key does not exist) is the result.
Extend(c) ==
  /\ client[c].pc = "idle"
  /\ \E id \in Ids, duration \in ExtendChoices :
       /\ visibility' = ExpireKey(id, now + duration)
       /\ extended' = IF visibility[id] # 0
                       THEN [extended EXCEPT ![id] = now + duration]
                       ELSE extended
       /\ client' = Result(c, "Extend", id, Nil, 0)
  /\ UNCHANGED <<maxRetries, db, deliveries, retry, config, stats, queue, delayed, processing, deadLetter, now,
                 history>>

\* ------------------------------------------------------------------ Delete

\* Lines 367-375: the keys Delete searches, in order.
DeleteKeys ==
  <<QueuePriorityLow, QueuePriorityNormal, QueuePriorityHigh,
    QueuePriorityCritical, "processing", "delayed", "dead_letter">>

\* The entries of the id under key, as LRANGE or ZRANGE return them.
Found(key, id) ==
  CASE key \in QueueNames -> {Matches(queue[key], id)}
    [] key = "processing" -> {Matches(processing, id)}
    [] key = "dead_letter" -> {Matches(deadLetter, id)}
    [] OTHER ->
         {[i \in 1..Len(z) |-> z[i].member] :
            z \in ByScore({e \in delayed : e.member.id = id})}

\* Lines 377-420, one read: LRANGE or ZRANGE of the key at position idx.
\* The first entry of the id is what Delete will remove (snap holds the
\* entries of the id after it, which the loop comes to only when a removal
\* fails); with none the
\* search moves to the next key, and after the last key Delete returns
\* NotFound.
DeleteRead(c) ==
  /\ \/ /\ client[c].pc = "idle"
        /\ \E id \in Ids :
             \E hit \in Found(DeleteKeys[1], id) :
               client' =
                 IF hit # <<>>
                 THEN [client EXCEPT ![c].op = "Delete", ![c].id = id,
                         ![c].pc = "delrem", ![c].idx = 1,
                         ![c].job = Head(hit), ![c].snap = Tail(hit)]
                 ELSE [client EXCEPT ![c].op = "Delete", ![c].id = id,
                         ![c].pc = "delread", ![c].idx = 2]
     \/ /\ client[c].pc = "delread"
        /\ \E hit \in Found(DeleteKeys[client[c].idx], client[c].id) :
             client' =
               IF hit # <<>>
               THEN [client EXCEPT ![c].pc = "delrem", ![c].job = Head(hit),
                                   ![c].snap = Tail(hit)]
               ELSE IF client[c].idx < Len(DeleteKeys)
                 THEN [client EXCEPT ![c].idx = @ + 1]
                 ELSE Result(c, "Delete", client[c].id,
                             JobNotFound(client[c].id), 0)
  /\ UNCHANGED <<maxRetries, db, deliveries, retry, config, stats, extended, store, now, history>>

\* Lines 391-395 and 411-416: LREM key 1 <entry> (ZREM for the delayed set),
\* then Delete returns ok.
DeleteRem(c) ==
  /\ client[c].pc = "delrem"
  /\ LET key == DeleteKeys[client[c].idx]
         entry == client[c].job
     IN /\ queue' = IF key \in QueueNames
                    THEN [queue EXCEPT ![key] = LRem(@, entry)] ELSE queue
        /\ processing' = IF key = "processing" THEN LRem(processing, entry)
                         ELSE processing
        /\ deadLetter' = IF key = "dead_letter" THEN LRem(deadLetter, entry)
                         ELSE deadLetter
        /\ delayed' = IF key = "delayed" THEN ZRem(delayed, entry) ELSE delayed
  /\ removed' = IF <<queue, delayed, processing, deadLetter>> #
                     <<queue', delayed', processing', deadLetter'>>
                  THEN removed \cup {client[c].id} ELSE removed
  /\ fifo' = Taken(queue')
  /\ present' = Track(queue')
  /\ client' = Result(c, "Delete", client[c].id, Nil, 0)
  /\ UNCHANGED <<maxRetries, db, deliveries, retry, config, stats, extended, visibility, now, fresh, accepted, delivered, backoff>>

\* ------------------------------------------------------------------- Clear

\* The keys of the priority lists.
PriorityKeys ==
  <<QueuePriorityLow, QueuePriorityNormal, QueuePriorityHigh,
    QueuePriorityCritical>>

\* The keys of every list and set.
KeysWithDeadLetter ==
  <<QueuePriorityLow, QueuePriorityNormal, QueuePriorityHigh,
    QueuePriorityCritical, "processing", "delayed", "dead_letter">>

\* Lines 466-473: the keys Clear deletes, in order.
ClearKeys ==
  <<QueuePriorityLow, QueuePriorityNormal, QueuePriorityHigh,
    QueuePriorityCritical, "processing", "delayed">>

\* The ids with an entry under key.
KeyIds(key) ==
  CASE key \in QueueNames -> SeqIds(queue[key])
    [] key = "processing" -> SeqIds(processing)
    [] key = "dead_letter" -> SeqIds(deadLetter)
    [] OTHER -> {e.member.id : e \in delayed}

\* Lines 475-479: DEL of the key at position idx (the first one from idle).
Clear(c) ==
  /\ client[c].pc \in {"idle", "clear"}
  /\ LET idx == IF client[c].pc = "idle" THEN 1 ELSE client[c].idx
         key == ClearKeys[idx]
     IN /\ queue' = IF key \in QueueNames
                    THEN [queue EXCEPT ![key] = <<>>] ELSE queue
        /\ processing' = IF key = "processing" THEN <<>> ELSE processing
        /\ delayed' = IF key = "delayed" THEN {} ELSE delayed
        /\ deadLetter' = IF key = "dead_letter" THEN <<>> ELSE deadLetter
        /\ removed' = removed \cup KeyIds(key)
        /\ client' =
             IF idx < Len(ClearKeys)
             THEN [client EXCEPT ![c].op = "Clear", ![c].pc = "clear",
                                 ![c].idx = idx + 1]
             ELSE Result(c, "Clear", 0, Nil, 0)
  /\ fifo' = Taken(queue')
  /\ present' = Track(queue')
  /\ UNCHANGED <<maxRetries, db, deliveries, retry, config, stats, extended, visibility, now, fresh, accepted,
                 delivered, backoff>>

\* -------------------------------------------------------------------- Size

\* The keys of every list and set but the dead-letter list.
KeysWithProcessing ==
  <<QueuePriorityLow, QueuePriorityNormal, QueuePriorityHigh,
    QueuePriorityCritical, "processing", "delayed">>

\* Lines 435-440 and 453: the keys Size reads, in order.
SizeKeys ==
  <<QueuePriorityLow, QueuePriorityNormal, QueuePriorityHigh,
    QueuePriorityCritical, "delayed">>

\* LLEN key (ZCARD for the delayed set).
KeyLen(key) ==
  CASE key \in QueueNames -> Len(queue[key])
    [] key = "processing" -> Len(processing)
    [] key = "dead_letter" -> Len(deadLetter)
    [] OTHER -> Cardinality(delayed)

\* Lines 442-461: LLEN or ZCARD of the key at position idx (the first one
\* from idle), added to the total; after the last key Size has its total.
Size(c) ==
  /\ client[c].pc \in {"idle", "size"}
  /\ LET idx == IF client[c].pc = "idle" THEN 1 ELSE client[c].idx
         total == client[c].n + KeyLen(SizeKeys[idx])
     IN client' =
          IF idx < Len(SizeKeys)
          THEN [client EXCEPT ![c].op = "Size", ![c].pc = "size",
                              ![c].idx = idx + 1, ![c].n = total]
          ELSE Result(c, "Size", 0, Nil, total)
  /\ UNCHANGED <<maxRetries, db, deliveries, retry, config, stats, extended, store, now, history>>

\* ---------------------------------------------------------- store failures

\* GetCode (pkg/errors/errors.go 290-297) of an error of the Redis client
\* handed on as it is: it is no *Error, so its code is Unknown.
RedisError == [code |-> CodeUnknown, id |-> 0]

\* client when the call op(id) of c returns err after a failed command.
Failed(c, op, id, err) ==
  [client EXCEPT ![c] = [Idle EXCEPT !.pc = "ret", !.op = op, !.id = id,
                                     !.err = err, !.fault = TRUE]]

\* Lines 315-319: LRANGE processing fails; Nack wraps the error as Internal.
NackReadFails(c) ==
  /\ client[c].pc = "idle"
  /\ \E id \in Ids : client' = Failed(c, "Nack", id, Wrapped(id))
  /\ UNCHANGED <<maxRetries, db, deliveries, retry, config, stats, extended, store, now, history>>

\* Lines 332-343: the write of Nack fails and nothing is written.  The error
\* of RPUSH dead_letter comes back as moveToDeadLetter returns it (line 609),
\* the error of Enqueue is already wrapped as Internal.
NackPutFails(c) ==
  /\ client[c].pc = "nackput"
  /\ client' =
       Failed(c, "Nack", client[c].id,
              IF Exhausted(Retried(client[c].job, client[c].reason))
              THEN RedisError ELSE Wrapped(client[c].id))
  /\ UNCHANGED <<maxRetries, db, deliveries, retry, config, stats, extended, store, now, history>>

\* Lines 345-349: LREM processing fails after the write went through; Nack
\* wraps the error as Internal.  Every such failure leaves one more entry
\* behind, so the entries left behind are capped at MaxLeftOver.
NackRemFails(c) ==
  /\ client[c].pc = "nackrem"
  /\ Len(deadLetter) + Cardinality(delayed) <= MaxLeftOver
  /\ client' = Failed(c, "Nack", client[c].id, Wrapped(client[c].id))
  /\ UNCHANGED <<maxRetries, db, deliveries, retry, config, stats, extended, store, now, history>>

\* Lines 426-430: EXPIRE fails; Extend returns the error of the command.
ExtendFails(c) ==
  /\ client[c].pc = "idle"
  /\ \E id \in Ids : client' = Failed(c, "Extend", id, RedisError)
  /\ UNCHANGED <<maxRetries, db, deliveries, retry, config, stats, extended, store, now, history>>

\* client when Delete gives up the key at position idx: the search goes on
\* with the next key, and after the last key Delete returns NotFound.
NextKey(c, id, idx) ==
  IF idx < Len(DeleteKeys)
  THEN [client EXCEPT ![c].op = "Delete", ![c].id = id, ![c].pc = "delread",
                      ![c].idx = idx + 1, ![c].snap = <<>>,
                      ![c].fault = TRUE]
  ELSE Failed(c, "Delete", id, JobNotFound(id))

\* Lines 379-382 and 400-403: LRANGE or ZRANGE of a key fails and Delete
\* continues with the next key.
DeleteReadFails(c) ==
  /\ \/ /\ client[c].pc = "idle"
        /\ \E id \in Ids : client' = NextKey(c, id, 1)
     \/ /\ client[c].pc = "delread"
        /\ client' = NextKey(c, client[c].id, client[c].idx)
  /\ UNCHANGED <<maxRetries, db, deliveries, retry, config, stats, extended, store, now, history>>

\* Lines 391-396 and 411-417: LREM or ZREM fails; Delete returns only when
\* err == nil, so the loop goes on to the next entry of the id that the
\* read returned and, with none left, to the next key.
DeleteRemFails(c) ==
  /\ client[c].pc = "delrem"
  /\ client' =
       IF client[c].snap # <<>>
       THEN [client EXCEPT ![c].job = Head(client[c].snap),
                           ![c].snap = Tail(@), ![c].fault = TRUE]
       ELSE NextKey(c, client[c].id, client[c].idx)
  /\ UNCHANGED <<maxRetries, db, deliveries, retry, config, stats, extended, store, now, history>>

\* -------------------------------------------------------------------- time

\* extended at time t: the expiry of a key that is gone is forgotten.
Lapse(t) == [i \in Ids |-> IF extended[i] <= t THEN NoTime ELSE extended[i]]

\* The visibility keys at time t: a key whose TTL has run out is gone.
Expire(t) ==
  [i \in Ids |-> IF visibility[i] # NoTime /\ visibility[i] <= t
                 THEN 0 ELSE visibility[i]]

TickSecond ==
  /\ now % Minute < MaxSubTicks
  /\ now' = now + 1
  /\ visibility' = Expire(now')
  /\ extended' = Lapse(now')
  /\ UNCHANGED <<maxRetries, db, deliveries, retry, config, stats, queue, delayed, processing, deadLetter, client,
                 history>>

\* A whole minute passes.  Queue operations are short (BLMOVE waits 100 ms):
\* none is in flight across the jump.
TickMinute ==
  /\ now \div Minute < MaxMinutes
  /\ \A c \in Clients : client[c].pc = "idle"
  /\ now' = now + Minute
  /\ visibility' = Expire(now')
  /\ extended' = Lapse(now')
  /\ UNCHANGED <<maxRetries, db, deliveries, retry, config, stats, queue, delayed, processing, deadLetter, client,
                 history>>

\* A minute passes while a delayed job waits for its time.
TickWait ==
  /\ \E e \in delayed : e.score > Unix(now)
  /\ now' = now + Minute
  /\ visibility' = Expire(now')
  /\ extended' = Lapse(now')
  /\ UNCHANGED <<maxRetries, db, deliveries, retry, config, stats, queue, delayed, processing, deadLetter, client,
                 history>>

\* -------------------------------------------------------------- properties

\* The number of entries of the id in list s.
Count(s, id) == Len(Matches(s, id))

\* The entries of the id in the delayed set.
DelayedOf(id) == {e \in delayed : e.member.id = id}

\* The number of entries of the id over the four priority lists, the delayed
\* set, the processing list and the dead-letter list.
Entries(id) ==
  Count(queue[QueuePriorityCritical], id) + Count(queue[QueuePriorityHigh], id)
  + Count(queue[QueuePriorityNormal], id) + Count(queue[QueuePriorityLow], id)
  + Cardinality(DelayedOf(id)) + Count(processing, id) + Count(deadLetter, id)

\* Every job stored in some collection.
Range(s) == {s[i] : i \in 1..Len(s)}

StoredJobs ==
  UNION {Range(queue[n]) : n \in QueueNames} \cup {e.member : e \in delayed}
  \cup Range(processing) \cup Range(deadLetter)

Quiescent == \A c \in Clients : client[c].pc = "idle"

\* C1: with every job id enqueued at most once, each job id has at most one
\* entry in total across the priority lists, the delayed set, the processing
\* list and the dead-letter list; stated here for the states in which no
\* operation is in flight, where even a reader that takes pipelines for
\* atomic sees every entry.
C1_AtMostOneEntry == Quiescent => \A id \in Ids : Entries(id) <= 1

\* C2: a job accepted by Enqueue and not removed by a successful Ack, Delete
\* or Clear has at least one entry in some collection, in every state (also
\* between the commands of Dequeue, of the promotion and of Nack).
C2_NoJobLost == \A id \in accepted \ removed : Entries(id) >= 1

\* A job that was delivered, rejected, delayed and promoted again is in a
\* priority list, and no Ack has removed an entry of it.
C2_Witness ==
  \E n \in QueueNames : \E j \in Range(queue[n]) :
    j.retry_count >= 1 /\ j.id \in accepted \ removed

\* C3: a Dequeue that takes a job out of a priority list leaves no job of a
\* higher priority behind that has been in its priority list ever since the
\* Dequeue started, whatever other clients do meanwhile.
C3_PriorityRespected ==
  \A c \in Clients :
    client[c].pc = "arm" =>
      \A n \in QueueNames : \A j \in Range(queue[n]) :
        j.id \in present[c] => j.priority <= client[c].job.priority

\* A Dequeue has taken a critical job while a job of lower priority waits
\* that was there when the Dequeue started.
C3_Witness ==
  \E c \in Clients :
    /\ client[c].pc = "arm"
    /\ client[c].job.priority = JobPriorityCritical
    /\ \E j \in Range(queue[QueuePriorityNormal]) : j.id \in present[c]

\* C4: of the jobs of one priority enqueued for immediate delivery, Dequeue
\* takes out the one whose RPUSH reached the store first: the job a BLMOVE
\* pops is the oldest immediate arrival still in its list.
C4_FifoWithinPriority ==
  [][\A c \in Clients :
       client[c].pc = "scan" /\ client'[c].pc = "arm" =>
         LET key == getQueueKey(client'[c].job.priority)
         IN client'[c].job.id \in Range(fifo[key]) =>
              client'[c].job.id = Head(fifo[key])]_vars

\* Dequeue has taken the first of two immediate jobs of one priority, and
\* the second is still in the list.
C4_Witness ==
  \E c \in Clients : \E n \in QueueNames :
    /\ client[c].pc = "arm"
    /\ client[c].job.scheduled_at = NoTime
    /\ getQueueKey(client[c].job.priority) = n
    /\ fifo[n] # <<>>
    /\ client[c].job.id < Head(fifo[n])

\* C5: no job is handed out by Dequeue before its scheduled_at: a job in the
\* processing list has no scheduled_at later than the clock.
C5_NotBeforeScheduledAt ==
  \A j \in Range(processing) :
    j.scheduled_at # NoTime => j.scheduled_at <= now

\* The lease of the id has run out: the job is in the processing list, its
\* visibility key is gone and no Dequeue is about to set it.
LeaseExpired(id) ==
  /\ Count(processing, id) > 0
  /\ visibility[id] = 0
  /\ \A c \in Clients : client[c].pc = "arm" => client[c].job.id # id

\* C6: when no worker calls Ack, Nack or Extend, a job whose lease has run
\* out leaves the processing list (to be queued again with retry_count 1).
C6_ExpiredLeaseRequeued ==
  \A id \in Ids : LeaseExpired(id) ~> (Count(processing, id) = 0)

\* C7: the pop and the lease arm are one transition: a step that adds an
\* entry of a job to the processing list leaves the job's visibility key set
\* to expire visibility_timeout later.
C7_LeaseArmedWithPop ==
  [][\A id \in Ids :
       Count(processing', id) > Count(processing, id) =>
         visibility'[id] = now' + VisibilityTimeout]_vars

\* C8: every stored job has 0 <= retry_count <= max_retries, for every
\* max_retries the producers choose.
C8_RetryCountBounded ==
  \A j \in StoredJobs : 0 <= j.retry_count /\ j.retry_count <= j.max_retries

\* The step in which the Nack of client c returns ok.
NackReturns(c) == client[c].pc = "nackrem" /\ client'[c].pc = "idle"

\* C9: when a Nack whose incremented retry_count is >= max_retries returns
\* ok, the job has exactly one dead-letter entry, of status dead, and no entry
\* in the processing list, the delayed set or a priority list.
C9_DeadLetteredOnce ==
  [][\A c \in Clients :
       NackReturns(c) /\ Exhausted(Retried(client[c].job, client[c].reason)) =>
         /\ Count(deadLetter', client[c].id) = 1
         /\ \A j \in Range(deadLetter') :
              j.id = client[c].id => j.status = JobStatusDead
         /\ Count(processing', client[c].id) = 0
         /\ \A e \in delayed' : e.member.id # client[c].id
         /\ client[c].id \notin ListIds(queue')]_vars

\* C10: when a Nack whose incremented retry_count is < max_retries returns
\* ok, the job is out of the processing list and in the delayed set with
\* error = reason; and the Dequeue that next takes the job out, once the
\* backoff has elapsed, takes it with a retry_count one greater than at the
\* delivery before.
C10_RetriedOnce ==
  /\ [][\A c \in Clients :
          NackReturns(c)
          /\ ~Exhausted(Retried(client[c].job, client[c].reason)) =>
            /\ Count(processing', client[c].id) = 0
            /\ \E e \in delayed' :
                 e.member.id = client[c].id /\ e.member.error = client[c].reason]_vars
  /\ [][\A id \in Ids :
          Count(processing', id) > Count(processing, id)
          /\ backoff[id] # NoTime /\ backoff[id] <= now =>
            delivered'[id] = {r + 1 : r \in delivered[id]}]_vars

\* C11: a job with max_retries = 2 is delivered three times (retry_count 0,
\* 1, 2), each delivery followed by a Nack, before it is dead-lettered: its
\* dead-letter entry, the only entry the job then has, has status dead and
\* retry_count 2, and the delivery before it was the third (stated once the
\* last Nack has returned).
C11_ThreeDeliveriesThenDead ==
  \A j \in Range(deadLetter) :
    Quiescent /\ j.max_retries = 2 =>
      /\ j.status = JobStatusDead /\ j.retry_count = 2
      /\ Entries(j.id) = 1
      /\ delivered[j.id] = {2}

\* The longest delay of the default retry policy (ExponentialBackoff caps
\* every delay at MaxDelay).
MaxDelay == 30 * Second

\* C13: the delay between now and the scheduled_at Nack gives the job it
\* re-enqueues is the default retry policy's backoff, which is never more
\* than MaxDelay.
C13_BackoffWithinPolicy ==
  [][\A id \in Ids :
       backoff'[id] # backoff[id] /\ backoff'[id] # NoTime =>
         backoff'[id] - now <= MaxDelay]_vars

\* Ack of c returns ok.
AckReturns(c) == client[c].pc = "ackclear" /\ client'[c].pc = "idle"

\* Ack of c removes an entry.
AckRemoves(c) == client[c].pc = "ackrem" /\ client'[c].pc = "ackclear"

\* C14: Ack(id) for a job in the processing list removes exactly one
\* processing entry of the id and no entry of another id, leaves the priority
\* lists, the delayed set and the dead-letter list as they are, and clears
\* the visibility key of the id and no other; when Ack returns, the id has
\* no entry in any collection.
C14_AckRemovesOneEntry ==
  [][\A c \in Clients : \A id \in Ids : client[c].id = id =>
       /\ AckRemoves(c) =>
            /\ Count(processing', id) = Count(processing, id) - 1
            /\ \A k \in Ids \ {id} : Count(processing', k) = Count(processing, k)
            /\ UNCHANGED <<queue, delayed, deadLetter, visibility>>
       /\ AckReturns(c) =>
            /\ visibility' = [visibility EXCEPT ![id] = 0]
            /\ UNCHANGED <<queue, delayed, processing, deadLetter>>
            /\ Entries(id)' = 0]_vars

\* C15: Ack and Nack called with an id that has no entry in the processing
\* list, and Delete called with an id that has no entry in any priority list,
\* the processing list, the delayed set or the dead-letter list, have a
\* NotFound error as their result, and no step of such a call changes a list,
\* the delayed set or a visibility key.
C15_UnknownIdNotFound ==
  [][\A c \in Clients : \A id \in Ids : client'[c].id = id =>
       /\ /\ client[c].pc = "idle"
          /\ client'[c].op \in {"Ack", "Nack"}
          /\ Count(processing, id) = 0
          => /\ client'[c].pc = "ret"
             /\ client'[c].err.code = CodeNotFound
             /\ UNCHANGED store
       /\ /\ client'[c] # client[c]
          /\ client'[c].op = "Delete"
          /\ Entries(id) = 0
          => /\ client'[c].pc \in {"delread", "ret"}
             /\ client'[c].pc = "ret" => client'[c].err.code = CodeNotFound
             /\ UNCHANGED store]_vars

\* A Delete of an id without entry has its result while the store holds a job
\* and a visibility key of another id.
C15_Witness ==
  \E c \in Clients :
    /\ client[c].pc = "ret" /\ client[c].op = "Delete"
    /\ client[c].err.code = CodeNotFound
    /\ Entries(client[c].id) = 0
    /\ StoredJobs # {}
    /\ \E i \in Ids : visibility[i] # 0

\* C17: Extend(id, d) when no visibility key exists for the id has a nil
\* error as its result, creates no visibility key and changes no list or set.
C17_ExtendWithoutKey ==
  [][\A c \in Clients : \A id \in Ids :
       /\ client[c].pc = "idle"
       /\ client'[c].op = "Extend" /\ client'[c].id = id
       /\ visibility[id] = 0
       => /\ client'[c].pc = "ret" /\ client'[c].err = Nil
          /\ UNCHANGED store]_vars

\* Extend has its result for a job in the processing list whose lease has
\* expired.
C17_Witness ==
  \E c \in Clients :
    /\ client[c].pc = "ret" /\ client[c].op = "Extend"
    /\ visibility[client[c].id] = 0
    /\ Count(processing, client[c].id) = 1
    /\ now > 0

\* The jobs waiting for delivery: the lengths of the four priority lists and
\* the cardinality of the delayed set.
Waiting ==
  Len(queue[QueuePriorityCritical]) + Len(queue[QueuePriorityHigh])
  + Len(queue[QueuePriorityNormal]) + Len(queue[QueuePriorityLow])
  + Cardinality(delayed)

\* C18: the number Size() returns is the sum of the lengths of the four
\* priority lists plus the cardinality of the delayed set; the entries of the
\* processing list and of the dead-letter list are not counted.
C18_SizeCountsWaiting ==
  \A c \in Clients :
    client[c].pc = "ret" /\ client[c].op = "Size" =>
      client[c].err = Nil /\ client[c].n = Waiting

\* Size has counted a delayed job and not the one in the processing list or
\* the dead-letter list.
C18_Witness ==
  \E c \in Clients :
    /\ client[c].pc = "ret" /\ client[c].op = "Size"
    /\ client[c].n = 1 /\ Cardinality(delayed) = 1
    /\ Len(processing) + Len(deadLetter) = 1

\* Clear of c is at work in this step.
Clearing(c) == client[c].pc \in {"idle", "clear"} /\ client'[c].op = "Clear"

\* C19: when Clear has its result it is a nil error, and the four priority
\* lists, the delayed set and the processing list are empty, so that Size()
\* is 0; no step of Clear changes the dead-letter list.  Before that, as long
\* as no job has been delivered or removed, Size() returns the number of
\* jobs enqueued (2 after an EnqueueBatch of two jobs).
C19_ClearEmptiesQueue ==
  /\ [](\A c \in Clients :
          /\ client[c].pc = "ret" /\ client[c].op = "Clear" =>
               /\ client[c].err = Nil
               /\ \A n \in QueueNames : queue[n] = <<>>
               /\ delayed = {} /\ processing = <<>>
               /\ Waiting = 0
          /\ /\ client[c].pc = "ret" /\ client[c].op = "Size"
             /\ removed = {} /\ processing = <<>> /\ deadLetter = <<>>
             => client[c].n = Cardinality(accepted))
  /\ [][\A c \in Clients : Clearing(c) => deadLetter' = deadLetter]_vars

\* Clear has its result after it removed a job, with an entry in the
\* dead-letter list.
C19_Witness ==
  \E c \in Clients :
    /\ client[c].pc = "ret" /\ client[c].op = "Clear"
    /\ deadLetter # <<>> /\ removed # {} /\ accepted = Ids

\* Delete of c for the id removes an entry from the dead-letter list in this
\* step.
Purging(c, id) ==
  /\ client[c].pc = "delrem" /\ client[c].id = id
  /\ DeleteKeys[client[c].idx] = "dead_letter"

\* C20: an entry of the dead-letter list stays in the list, unchanged and in
\* its place, through every step of Enqueue, Dequeue, Ack, Nack, Extend and
\* Clear (the list only grows at its tail); the only step that removes one
\* is the removal of an explicit Delete of its id, which removes one entry
\* of that id and no other; and the job Dequeue moves to the processing list
\* is never an entry of the dead-letter list.
C20_DeadLetterKept ==
  [][/\ \/ /\ Len(deadLetter') >= Len(deadLetter)
           /\ SubSeq(deadLetter', 1, Len(deadLetter)) = deadLetter
        \/ \E c \in Clients : \E id \in Ids :
             /\ Purging(c, id)
             /\ Count(deadLetter', id) = Count(deadLetter, id) - 1
             /\ \A k \in Ids \ {id} :
                  Matches(deadLetter', k) = Matches(deadLetter, k)
     /\ \A c \in Clients :
          client[c].pc = "scan" /\ client'[c].pc = "arm" =>
            /\ client'[c].job \notin Range(deadLetter)
            /\ client'[c].job.status # JobStatusDead]_vars

\* Dequeue has taken a job while the dead-letter list holds an entry.
C20_Witness ==
  /\ deadLetter # <<>>
  /\ \E c \in Clients : client[c].pc = "arm"

\* C16: after Dequeue has delivered a job and Extend has given its live
\* lease a new expiry, the lease stays live until that expiry, also once
\* visibility_timeout has elapsed: the visibility key is there with the
\* expiry Extend gave it, the job has its one entry in the processing list
\* and none elsewhere (until an Ack removes it), and an Ack of the job issued
\* in that time finds the entry, removes it and returns ok.
C16_ExtendedLeaseLive ==
  /\ [](\A id \in Ids : extended[id] # NoTime =>
          /\ now < extended[id] /\ visibility[id] = extended[id]
          /\ \/ Count(processing, id) = 1 /\ Entries(id) = 1
             \/ /\ Entries(id) = 0
                /\ \E c \in Clients :
                     client[c].pc = "ackclear" /\ client[c].id = id)
  /\ [][\A c \in Clients : \A id \in Ids :
          /\ client'[c] # client[c]
          /\ client'[c].op = "Ack" /\ client'[c].id = id
          /\ extended[id] # NoTime
          => client'[c].pc \in {"ackrem", "ackclear"}]_vars

\* Once visibility_timeout has elapsed since the Extend, an Ack has removed
\* the job whose extended lease is live.
C16_Witness ==
  \E c \in Clients : \E id \in Ids :
    /\ client[c].pc = "ackclear" /\ client[c].id = id
    /\ extended[id] # NoTime
    /\ now >= extended[id] - VisibilityTimeout
    /\ visibility[id] > now

\* The job id is done with: it has no entry in a priority list, the delayed
\* set or the processing list, and it was removed by Ack or has an entry in
\* the dead-letter list.
Settled(id) ==
  /\ Entries(id) = Count(deadLetter, id)
  /\ id \in removed \/ Count(deadLetter, id) >= 1

\* C12: with finitely many jobs enqueued, consumers that keep calling
\* Dequeue, a clock that advances and every delivery eventually followed by
\* Ack or Nack, there is a time after which every enqueued job is done with
\* for good: removed by Ack or at rest in the dead-letter list.
C12_DeliveryTerminates == <>[](\A id \in accepted : Settled(id))

\* A job rests in the dead-letter list after its retries, every client idle.
C12_Witness ==
  /\ Quiescent
  /\ \E j \in Range(deadLetter) :
       j.retry_count = 2 /\ Settled(j.id) /\ j.id \notin removed

\* C30: when Dequeue calls run concurrently while a delayed job is due, the
\* job is promoted once: a job that is enqueued once and never acknowledged,
\* rejected or deleted has at most one entry over the priority lists and the
\* processing list, and once it is promoted none in the delayed set, so that
\* it is delivered to at most one caller.
C30_PromotedOnce ==
  \A id \in Ids :
    /\ Count(processing, id) <= 1
    /\ Quiescent => Entries(id) <= 1

\* C25: the job Dequeue returns for a job enqueued for immediate delivery
\* and not yet retried is the job as it was enqueued (the entry now in the
\* processing list) but for its status, which is running.
C25_RoundTrip ==
  \A c \in Clients :
    /\ client[c].pc = "arm"
    /\ client[c].job.retry_count = 0 /\ client[c].job.scheduled_at = NoTime
    => /\ client[c].job.id \in accepted
       /\ [client[c].job EXCEPT !.status = JobStatusPending] \in Range(processing)
       /\ client[c].job.status = JobStatusRunning

\* The jobs client c holds in its local variables.
HeldBy(c) ==
  (IF client[c].pc \in {"arm", "nackput", "nackrem", "delrem"}
   THEN {client[c].job} ELSE {})
  \cup {client[c].pipe[i].member : i \in 1..Len(client[c].pipe)}
  \cup Range(client[c].snap)

\* Jobs j and k have the same id, priority and max_retries.
SameJob(j, k) ==
  j.id = k.id /\ j.priority = k.priority /\ j.max_retries = k.max_retries

\* C27: every entry a step writes that is not a producer's new job has the
\* id, priority and max_retries of a copy of the job that is already stored
\* or in the hands of a client, so that all copies keep those of the job
\* first enqueued; the copy Nack writes differs from the entry it read in no
\* field but retry_count, error, scheduled_at and, in the dead-letter list,
\* status.
C27_IdAndPriorityImmutable ==
  [][/\ \A k \in StoredJobs' \ StoredJobs :
          \/ k.id \in fresh
          \/ \E j \in StoredJobs \cup UNION {HeldBy(c) : c \in Clients} :
               SameJob(j, k)
     /\ \A c \in Clients :
          client[c].pc = "nackput" /\ client'[c].pc = "nackrem" =>
            \A k \in StoredJobs' \ StoredJobs :
              /\ SameJob(client[c].job, k)
              /\ k.retry_count = client[c].job.retry_count + 1
              /\ \/ k.status = client[c].job.status
                 \/ k.status = JobStatusDead /\ k \in Range(deadLetter')]_vars

\* A job is back in its priority list after a Nack and a promotion.
C27_Witness ==
  \E n \in QueueNames : \E j \in Range(queue[n]) :
    j.retry_count = 1 /\ j.scheduled_at # NoTime /\ deadLetter = <<>>

\* C26: a queue whose visibility_timeout is zero is never returned by the
\* constructor, so that no lease is ever armed without an expiry.
C26_ZeroTimeoutRejected ==
  /\ config.visibility_timeout # 0
  /\ \A id \in Ids : visibility[id] # NoTime

\* C22: DequeueBatch(limit) returns at most limit jobs, each of them moved
\* into the processing list by one round of its loop; with limit 0 it returns
\* none and moves none.
C22_AtMostLimit ==
  \A c \in Clients :
    client[c].pc = "ret" /\ client[c].op = "DequeueBatch"
      => client[c].n <= client[c].limit

C24_InvalidRejected ==
  \A c \in Clients :
    /\ client[c].pc = "ret" /\ client[c].op = "Enqueue"
    /\ \/ client[c].job = <<>>
       \/ ~JobType(client[c].job.type)
       \/ ~JobPriority(client[c].job.priority)
       \/ client[c].job.max_retries \notin 0..MaxRetriesMax
    => /\ client[c].err.code = CodeValidation
       /\ client[c].job \notin StoredJobs
       /\ stats.total_enqueued = Cardinality(accepted)

\* C21: an EnqueueBatch with a job that cannot be serialized returns a
\* Serialization error and changes neither a priority list, nor the delayed
\* set, nor the statistics: no job of the batch is stored.
C21_BatchAborted ==
  [][\A c \in Clients :
       /\ client[c].pc = "idle" /\ client'[c].pc \in {"ret", "pipe"}
       /\ client'[c].op = "EnqueueBatch"
       => LET jobs == IF client'[c].pc = "ret" THEN client'[c].snap
                      ELSE [i \in 1..Len(client'[c].pipe) |->
                              client'[c].pipe[i].member]
          IN (\E i \in 1..Len(jobs) : jobs[i].payload \notin {"{}"})
               => /\ client'[c].pc = "ret"
                  /\ client'[c].err.code = CodeSerialization
                  /\ queue' = queue /\ delayed' = delayed /\ stats' = stats
                  /\ \A i \in 1..Len(jobs) : jobs[i] \notin StoredJobs'
    ]_vars

\* A batch whose second job cannot be serialized has returned its error, and
\* nothing is stored.
C21_Witness ==
  \E c \in Clients :
    /\ client[c].pc = "ret" /\ client[c].op = "EnqueueBatch"
    /\ client[c].err.code = CodeSerialization
    /\ Len(client[c].snap) = NJobs
    /\ client[c].snap[1].payload = "{}"
    /\ client[c].snap[NJobs].payload # "{}"
    /\ StoredJobs = {} /\ stats.total_enqueued = 0

C29_NotRetried ==
  \A i \in 1..retry.calls :
    LET err == retry.script[i]
    IN /\ err.code \in {CodeValidation, CodeNotFound, CodePermission,
                          CodeAuthentication}
          => /\ retry.pc = "done" /\ retry.calls = i
             /\ retry.waits = i - 1
             /\ retry.result = err
       /\ /\ err # NoError
          /\ err.code \notin {CodeValidation, CodeNotFound, CodePermission,
                               CodeAuthentication}
          /\ i < retry.max_attempts
          => \/ retry.calls = i /\ retry.pc \in {"wait", "call"}
                /\ retry.waits \in {i - 1, i}
             \/ retry.calls > i /\ retry.waits >= i

\* The second call of the operation has failed with a NotFound error, after
\* one that was retried: Do has returned it after two calls and one backoff.
C29_Witness ==
  /\ retry.pc = "done" /\ retry.max_attempts = MaxAttemptsLimit
  /\ retry.script[1] = Coded(CodeInternal)
  /\ retry.script[2] = Coded(CodeNotFound)
  /\ retry.calls = 2 /\ retry.waits = 1
  /\ retry.result = Coded(CodeNotFound)

\* C31: of the Nack calls that work on one entry of the processing list only
\* one writes the job back (to a list, the delayed set or the dead-letter
\* list): two callers that have both written it back hold two entries.
C31_OneNackWins ==
  \A c \in Clients : \A d \in Clients \ {c} :
    /\ client[c].pc = "nackrem" /\ client[d].pc = "nackrem"
    /\ client[c].job = client[d].job
    => Len(SelectSeq(processing, LAMBDA e : e = client[c].job)) >= 2

\* C40: a job whose id is enqueued once is taken by Dequeue at most
\* max_retries + 1 times.
C40_DeliveriesBounded ==
  \A i \in DOMAIN deliveries : deliveries[i] <= maxRetries + 1

\* C35: every row get_next_job returns has status running and the worker id
\* of the caller it is returned to, and no row is returned to two callers.
C35_ClaimedByCaller ==
  \A c \in Clients :
    db.tx[c].pc = "done" =>
      \A r \in db.tx[c].out :
        /\ r.row.status = "running"
        /\ r.row.worker_id = WorkerId(c)
        /\ \A d \in Clients \ {c} :
             \A q \in db.tx[d].out : q.id # r.id

C36_OneAckWins ==
  [][\A c \in Clients :
       client[c].pc = "ackrem" /\ client'[c] # client[c] =>
         LET entry == Head(client[c].snap)
         IN IF \E i \in 1..Len(processing) : processing[i] = entry
            THEN /\ Len(processing') = Len(processing) - 1
                 /\ client'[c].pc = "ackclear"
            ELSE /\ processing' = processing
                 /\ Len(client[c].snap) = 1 =>
                      /\ client'[c].pc = "ret"
                      /\ client'[c].err.code = CodeNotFound
    ]_vars

\* Two Acks of one entry ran together: one has removed the entry, the other
\* has its NotFound error.
C36_Witness ==
  \E c \in Clients :
    /\ client[c].pc = "ret" /\ client[c].op = "Ack"
    /\ client[c].err.code = CodeNotFound
    /\ client[c].id \in removed
    /\ Entries(client[c].id) = 0
    /\ \A d \in Clients \ {c} : client[d].pc = "idle"

\* C37: once an Ack of an id has returned ok, the id has no entry in any
\* collection, so that no later Dequeue finds it.
C37_AckFinal ==
  \A id \in removed :
    (\A c \in Clients : ~(client[c].pc = "ackclear" /\ client[c].id = id))
      => Entries(id) = 0

\* C38: a visibility key for a job id exists only while that job is in the
\* processing list: when no operation is in flight (so after every successful
\* Ack, Nack or Delete of a job in processing, and after Clear), an id that
\* still has its key still has an entry in the processing list.
C38_KeyOnlyWhileProcessing ==
  Quiescent => \A id \in Ids : visibility[id] # 0 => Count(processing, id) > 0

\* C32: whenever a command fails in the store during an operation, the
\* operation returns an error coded Internal (Serialization for a failure of
\* the codec), never an uncoded error of the store and never a NotFound.
C32_FailuresAreInternal ==
  \A c \in Clients :
    client[c].pc = "ret" /\ client[c].fault =>
      client[c].err.code \in {CodeInternal, CodeSerialization}

\* C39: whenever Nack(id) returns the error of a failed command, the state
\* is as before the call: a job that has its entry in the processing list
\* (every id is enqueued once, and only Nack moves a job on from there) has
\* no entry in the delayed set or in the dead-letter list.
C39_NackUnchangedOnError ==
  \A c \in Clients :
    /\ client[c].pc = "ret" /\ client[c].op = "Nack" /\ client[c].fault
    /\ Count(processing, client[c].id) >= 1
    => /\ DelayedOf(client[c].id) = {}
       /\ Count(deadLetter, client[c].id) = 0

\* The entries of the id in every collection.
EntriesOf(id) ==
  <<[n \in QueueNames |-> Matches(queue[n], id)], DelayedOf(id),
    Matches(processing, id), Matches(deadLetter, id)>>

\* Delete of c returns ok.
DeleteReturns(c) ==
  /\ client[c].pc = "delrem"
  /\ client'[c].pc = "ret"
  /\ client'[c].err = Nil

\* C33: a Delete(id) that returns ok has removed exactly one entry of the id
\* (so an id with a single entry is afterwards in no collection) and has
\* left the entries of every other id as they were.
C33_DeleteRemovesOne ==
  [][\A c \in Clients : DeleteReturns(c) =>
       /\ Entries(client[c].id)' = Entries(client[c].id) - 1
       /\ \A k \in Ids \ {client[c].id} : EntriesOf(k)' = EntriesOf(k)]_vars

\* -------------------------------------------------------------------- Next

\* The steps of each operation of the queue, taken by client c.
EnqueueOp(c) == Enqueue(c)
EnqueueBatchOp(c) == EnqueueBatch(c)
EnqueueCallOp(c) == EnqueueCall(c)
EnqueueBatchCallOp(c) == EnqueueBatchCall(c) \/ PipeExec(c)
DequeueBatchOp(c) == DequeueBatch(c)
DequeueOp(c) ==
  \/ processScheduledJobs(c)
  \/ PipeExec(c)
  \/ BLMove(c)
  \/ setVisibilityTimeout(c)
AckOp(c) == AckRead(c) \/ AckRem(c) \/ clearVisibilityTimeout(c)
NackOp(c) == NackRead(c) \/ NackPut(c) \/ NackRem(c)
ExtendOp(c) == Extend(c)
DeleteOp(c) == DeleteRead(c) \/ DeleteRem(c)
ClearOp(c) == Clear(c)
SizeOp(c) == Size(c)
MissOp(c) == AckMiss(c) \/ NackMiss(c)
ReturnOp(c) == Returns(c)
Tick == TickSecond \/ TickMinute

\* Every operation of the queue, one caller at a time.
Solo == {1}

Next ==
  \/ \E c \in Solo :
       \/ EnqueueOp(c) \/ EnqueueBatchOp(c) \/ DequeueOp(c) \/ AckOp(c)
       \/ NackOp(c) \/ ExtendOp(c) \/ DeleteOp(c) \/ ClearOp(c)
       \/ SizeOp(c) \/ MissOp(c) \/ ReturnOp(c)
  \/ Tick

Spec == Init /\ [][Next]_vars

\* Concurrent producers and consumers: every client enqueues, dequeues and
\* acknowledges.
NextWorkers ==
  \/ \E c \in Clients :
       EnqueueOp(c) \/ DequeueOp(c) \/ AckOp(c) \/ ReturnOp(c)
  \/ Tick

SpecWorkers == Init /\ [][NextWorkers]_vars

\* Concurrent workers that retry: one job, and every client enqueues,
\* dequeues, acknowledges and rejects.
InitOne == Start(OneJob, 0..MaxRetriesLimit)

NextRetry ==
  \/ \E c \in Clients :
       \/ EnqueueOp(c) \/ DequeueOp(c) \/ AckOp(c) \/ NackOp(c)
       \/ ReturnOp(c)
  \/ Tick

SpecRetry == InitOne /\ [][NextRetry]_vars

\* Workers that crash after Dequeue: no client ever calls Ack, Nack or Extend
\* (nor Delete, Clear), the workers keep polling and the clock keeps ticking.
NextLease ==
  \/ \E c \in Clients : EnqueueOp(c) \/ DequeueOp(c)
  \/ Tick

SpecLease ==
  /\ InitOne /\ [][NextLease]_vars
  /\ \A c \in Clients : WF_vars(DequeueOp(c))
  /\ WF_vars(Tick)

\* One worker that dequeues, extends its lease and acks.
NextExtend ==
  \/ \E c \in Solo :
       \/ EnqueueOp(c) \/ DequeueOp(c) \/ ExtendOp(c) \/ AckOp(c)
       \/ MissOp(c) \/ ReturnOp(c)
  \/ Tick

SpecExtend == Init /\ [][NextExtend]_vars
\* Workers that finish their jobs: every client keeps calling Dequeue and
\* acknowledges, the first one also enqueues and rejects; every job in the
\* processing list is sooner or later acknowledged or rejected, and the clock
\* advances for as long as a delayed job waits.
InitLive == Start(OneJob, {MaxRetriesLimit})

NextLive ==
  \/ \E c \in Clients : DequeueOp(c) \/ AckOp(c) \/ ReturnOp(c)
  \/ \E c \in Solo : EnqueueOp(c) \/ NackOp(c)
  \/ TickWait

SpecLive ==
  /\ InitLive /\ [][NextLive]_vars
  /\ \A c \in Clients : WF_vars(DequeueOp(c))
  /\ \A c \in Clients : WF_vars(ReturnOp(c))
  /\ \A c \in Solo : SF_vars(AckOp(c) \/ NackOp(c))
  /\ WF_vars(TickWait)

\* Queues built from the default configuration and from one whose
\* visibility_timeout is zero: one worker enqueues, dequeues and acks.
ConfigChoices ==
  {DefaultConfig, [DefaultConfig EXCEPT !.visibility_timeout = 0]}

InitConfig == StartWith(Ids, 0..MaxRetriesLimit, ConfigChoices)

NextConfig ==
  \/ \E c \in Solo : EnqueueOp(c) \/ DequeueOp(c) \/ AckOp(c)
  \/ Tick

SpecConfig == InitConfig /\ [][NextConfig]_vars

\* One consumer of batches: a single caller enqueues and calls DequeueBatch.
NextBatch ==
  \/ \E c \in Solo :
       EnqueueOp(c) \/ DequeueBatchOp(c) \/ DequeueOp(c) \/ ReturnOp(c)
  \/ Tick

SpecBatch == Init /\ [][NextBatch]_vars

\* One producer that hands every kind of argument to Enqueue and
\* EnqueueBatch, and one consumer that dequeues.
NextProducer ==
  \/ \E c \in Solo :
       \/ EnqueueCallOp(c) \/ EnqueueBatchCallOp(c) \/ DequeueOp(c)
       \/ ReturnOp(c)
  \/ Tick

SpecProducer == Init /\ [][NextProducer]_vars

\* Calls of retry.Do: every MaxAttempts up to the limit and every script of
\* outcomes of the operation.
InitDo == StartCalls(Ids, {0}, {DefaultConfig}, DoInputs)

NextDo == DoWithConfig \/ DoAttempt \/ DoWait

SpecDo == InitDo /\ [][NextDo]_vars

\* The workers of SpecRetry, with the deliveries of the job counted.
InitCount ==
  /\ StartQueue(OneJob, 0..MaxRetriesLimit, {DefaultConfig})
  /\ retry = NoCall
  /\ db = NoDatabase
  /\ deliveries = [i \in OneJob |-> 0]

SpecCount == InitCount /\ [][NextRetry]_vars

\* The relational path: concurrent callers of get_next_job on a table of
\* pending and running rows, under every setting of variable_conflict.
InitSql ==
  /\ StartQueue(Ids, {0}, {DefaultConfig})
  /\ retry = NoCall
  /\ deliveries = Uncounted
  /\ db \in SqlInputs

NextSql == \E c \in Clients : GetNextJob(c) \/ SqlUpdate(c) \/ SqlCommit(c)

SpecSql == InitSql /\ [][NextSql]_vars

\* Calls of Next on exponential backoffs of every configuration.
InitBackoff ==
  /\ StartQueue(Ids, {0}, {DefaultConfig})
  /\ retry \in BackoffInputs
  /\ db = NoDatabase
  /\ deliveries = Uncounted

SpecBackoff == InitBackoff /\ [][NextDelay]_vars

\* One caller whose commands of Nack, Extend and Delete may fail in the
\* store; a failed command changes nothing.
FaultOp(c) ==
  \/ NackReadFails(c) \/ NackPutFails(c) \/ NackRemFails(c)
  \/ ExtendFails(c)
  \/ DeleteReadFails(c) \/ DeleteRemFails(c)

NextFaulty ==
  \/ \E c \in Solo :
       \/ EnqueueOp(c) \/ DequeueOp(c) \/ NackOp(c) \/ NackMiss(c)
       \/ ExtendOp(c) \/ DeleteOp(c) \/ FaultOp(c) \/ ReturnOp(c)
  \/ Tick

SpecFaulty == InitOne /\ [][NextFaulty]_vars


\* Concurrent producers, consumers and operators: every client enqueues,
\* dequeues and deletes.
NextDelete ==
  \/ \E c \in Clients :
       EnqueueOp(c) \/ DequeueOp(c) \/ DeleteOp(c) \/ ReturnOp(c)
  \/ Tick

SpecDelete == InitOne /\ [][NextDelete]_vars

====
